---- MODULE Spec2Model ----
(***************************************************************************)
(* Model of the asset-generation pipeline of services/geminiService.ts:    *)
(* the text sanitizers (cleanJson, cleanScriptForTTS), the Visual Planner  *)
(* (generateVisualPlan), the Voice Synthesizer (generateVoiceover) and the *)
(* Asset Generator (generateAsset, generateWithFlux, generateWithGemini).  *)
(*                                                                         *)
(* Texts are sequences of lexemes.  A lexeme is one character ("[", ",",   *)
(* " ", a backtick) or a unit that no regular expression of the code looks   *)
(* inside (the word "json", a quoted JSON string, a number).               *)
(***************************************************************************)
EXTENDS Integers, Sequences, FiniteSets, TLC

(***************************************************************************)
(* Bounds of the model.                                                    *)
(***************************************************************************)
MaxJsonLen == 3
MaxTextLen == 3
MaxTime == 2

(***************************************************************************)
(* Generic helpers on lexeme sequences.                                    *)
(***************************************************************************)
RECURSIVE SeqsUpTo(_, _)
SeqsUpTo(S, n) ==
    IF n = 0 THEN {<<>>}
    ELSE LET shorter == SeqsUpTo(S, n - 1)
         IN  shorter \cup {Append(s, c) : s \in shorter, c \in S}

Whitespace == {" ", "\n"}

\* String.prototype.indexOf(c): first index of c (1-based), 0 when absent.
IndexOf(s, c) ==
    IF \E i \in 1..Len(s) : s[i] = c
    THEN CHOOSE i \in 1..Len(s) : s[i] = c /\ \A j \in 1..(i - 1) : s[j] # c
    ELSE 0

\* String.prototype.lastIndexOf(c): last index of c (1-based), 0 when absent.
LastIndexOf(s, c) ==
    IF \E i \in 1..Len(s) : s[i] = c
    THEN CHOOSE i \in 1..Len(s) : s[i] = c /\ \A j \in (i + 1)..Len(s) : s[j] # c
    ELSE 0

\* String.prototype.trim(): drops leading and trailing whitespace.
RECURSIVE TrimLeft(_)
TrimLeft(s) ==
    IF s # <<>> /\ Head(s) \in Whitespace THEN TrimLeft(Tail(s)) ELSE s

RECURSIVE TrimRight(_)
TrimRight(s) ==
    IF s # <<>> /\ s[Len(s)] \in Whitespace
    THEN TrimRight(SubSeq(s, 1, Len(s) - 1))
    ELSE s

Trim(s) == TrimRight(TrimLeft(s))

\* TRUE iff pat occurs in s starting at index i, compared case-insensitively
\* through Lower.
Lower(c) == IF c = "JSON" THEN "json" ELSE c

MatchAt(s, i, pat, ci) ==
    /\ i + Len(pat) - 1 <= Len(s)
    /\ \A k \in 1..Len(pat) :
          IF ci THEN Lower(s[i + k - 1]) = Lower(pat[k]) ELSE s[i + k - 1] = pat[k]

\* s.replace(/pat/g, ''): leftmost non-overlapping matches removed.
RECURSIVE RemoveAllFrom(_, _, _, _)
RemoveAllFrom(s, i, pat, ci) ==
    IF i > Len(s) THEN <<>>
    ELSE IF MatchAt(s, i, pat, ci) THEN RemoveAllFrom(s, i + Len(pat), pat, ci)
    ELSE <<s[i]>> \o RemoveAllFrom(s, i + 1, pat, ci)

RemoveAll(s, pat, ci) == RemoveAllFrom(s, 1, pat, ci)

(***************************************************************************)
(* cleanJson                                                               *)
(***************************************************************************)
\* One backtick character.
Backtick == "bt"

FenceJson == <<Backtick, Backtick, Backtick, "json">>
Fence == <<Backtick, Backtick, Backtick>>

\* Index of the first non-whitespace lexeme at or after i (Len(s)+1 if none).
RECURSIVE SkipWsFrom(_, _)
SkipWsFrom(s, i) ==
    IF i <= Len(s) /\ s[i] \in Whitespace THEN SkipWsFrom(s, i + 1) ELSE i

\* clean.replace(/,(\s*[\]}])/g, '$1')
RECURSIVE StripTrailingCommasFrom(_, _)
StripTrailingCommasFrom(s, i) ==
    IF i > Len(s) THEN <<>>
    ELSE LET j == SkipWsFrom(s, i + 1)
         IN  IF s[i] = "," /\ j <= Len(s) /\ s[j] \in {"]", "}"}
             THEN SubSeq(s, i + 1, j) \o StripTrailingCommasFrom(s, j + 1)
             ELSE <<s[i]>> \o StripTrailingCommasFrom(s, i + 1)

StripTrailingCommas(s) == StripTrailingCommasFrom(s, 1)

\* Step 2 of cleanJson: keep the span from the first "[" to the last "]".
OuterArraySpan(s) ==
    LET start == IndexOf(s, "[")
        end == LastIndexOf(s, "]")
    IN  IF start # 0 /\ end # 0 /\ end > start THEN SubSeq(s, start, end) ELSE s

cleanJson(text) ==
    IF text = <<>> THEN <<"[", "]">>
    ELSE LET unfenced == RemoveAll(RemoveAll(text, FenceJson, TRUE), Fence, FALSE)
         IN  Trim(StripTrailingCommas(OuterArraySpan(unfenced)))

(***************************************************************************)
(* JSON.parse on lexeme sequences.  A parsed value is a record tagged by   *)
(* its kind k: "arr" (items), "obj" (fields, in source order), "str" (s),  *)
(* "num" (n) or "null".                                                    *)
(***************************************************************************)
StrLexemes ==
    {"\"type\"", "\"description\"", "\"IMAGE\"", "\"VIDEO\"", "\"Intro\"", "\"AUDIO\""}

NumLexemes == {"7"}

\* The string a quoted lexeme denotes.
Unquote(l) ==
    CASE l = "\"type\"" -> "type"
      [] l = "\"description\"" -> "description"
      [] l = "\"IMAGE\"" -> "IMAGE"
      [] l = "\"VIDEO\"" -> "VIDEO"
      [] l = "\"Intro\"" -> "Intro"
      [] l = "\"AUDIO\"" -> "AUDIO"

NumberOf(l) == CASE l = "7" -> 7

JArr(items) == [k |-> "arr", items |-> items]
JObj(fields) == [k |-> "obj", fields |-> fields]
JStr(s) == [k |-> "str", s |-> s]
JNum(n) == [k |-> "num", n |-> n]
JNull == [k |-> "null"]
JField(key, val) == [key |-> key, val |-> val]

ParseOk(v, rest) == [ok |-> TRUE, val |-> v, rest |-> rest]
ParseFail == [ok |-> FALSE, val |-> JNull, rest |-> <<>>]

RECURSIVE ParseValue(_), ParseElements(_, _), ParseMembers(_, _)

\* value: array, object, string, number or null, after optional whitespace.
ParseValue(s) ==
    LET t == TrimLeft(s)
    IN  IF t = <<>> THEN ParseFail
        ELSE IF Head(t) = "[" THEN
            LET u == TrimLeft(Tail(t))
            IN  IF u # <<>> /\ Head(u) = "]" THEN ParseOk(JArr(<<>>), Tail(u))
                ELSE ParseElements(u, <<>>)
        ELSE IF Head(t) = "{" THEN
            LET u == TrimLeft(Tail(t))
            IN  IF u # <<>> /\ Head(u) = "}" THEN ParseOk(JObj(<<>>), Tail(u))
                ELSE ParseMembers(u, <<>>)
        ELSE IF Head(t) \in StrLexemes THEN ParseOk(JStr(Unquote(Head(t))), Tail(t))
        ELSE IF Head(t) \in NumLexemes THEN ParseOk(JNum(NumberOf(Head(t))), Tail(t))
        ELSE IF Head(t) = "null" THEN ParseOk(JNull, Tail(t))
        ELSE ParseFail

\* elements of an array after "[": value ("," value)* "]"
ParseElements(s, acc) ==
    LET r == ParseValue(s)
        t == TrimLeft(r.rest)
    IN  IF ~r.ok \/ t = <<>> THEN ParseFail
        ELSE IF Head(t) = "," THEN ParseElements(Tail(t), Append(acc, r.val))
        ELSE IF Head(t) = "]" THEN ParseOk(JArr(Append(acc, r.val)), Tail(t))
        ELSE ParseFail

\* members of an object after "{": string ":" value ("," string ":" value)* "}"
ParseMembers(s, acc) ==
    LET t == TrimLeft(s)
    IN  IF t = <<>> \/ Head(t) \notin StrLexemes THEN ParseFail
        ELSE LET u == TrimLeft(Tail(t))
             IN  IF u = <<>> \/ Head(u) # ":" THEN ParseFail
                 ELSE LET r == ParseValue(Tail(u))
                          w == TrimLeft(r.rest)
                          fs == Append(acc, JField(Unquote(Head(t)), r.val))
                      IN  IF ~r.ok \/ w = <<>> THEN ParseFail
                          ELSE IF Head(w) = "," THEN ParseMembers(Tail(w), fs)
                          ELSE IF Head(w) = "}" THEN ParseOk(JObj(fs), Tail(w))
                          ELSE ParseFail

\* JSON.parse(text): the whole text must be one value; ok = FALSE models the
\* SyntaxError it throws.
JsonParse(text) ==
    LET r == ParseValue(text)
    IN  IF r.ok /\ TrimLeft(r.rest) = <<>> THEN r ELSE ParseFail

(***************************************************************************)
(* State.                                                                  *)
(***************************************************************************)
VARIABLES
    planPc,         \* generateVisualPlan: "idle", "start", "request", "done"
    planResponse,   \* outcome of the model request of generateVisualPlan
    planOutcome,    \* what generateVisualPlan hands to its caller
    planFrames,     \* the videoFrames argument of generateVisualPlan
    planParts       \* contents.parts of the model request

planVars == <<planPc, planResponse, planOutcome, planFrames, planParts>>

(***************************************************************************)
(* generateVisualPlan                                                      *)
(***************************************************************************)
Scene(type, description) ==
    JObj(<<JField("type", JStr(type)), JField("description", JStr(description))>>)

FallbackScene(description, imagePrompt) ==
    JObj(<<JField("type", JStr("IMAGE")),
           JField("description", JStr(description)),
           JField("imagePrompt", JStr(imagePrompt))>>)

\* The plan returned by the catch block of generateVisualPlan.
FallbackPlan ==
    JArr(<<FallbackScene("Intro",
               "Futuristic app dashboard glowing 3d render, purple and blue neon"),
           FallbackScene("Feature Highlight",
               "Abstract code visualization high tech blue and purple"),
           FallbackScene("User Benefit",
               "Happy user holding phone modern style, photorealistic"),
           FallbackScene("Call to Action",
               "Sleek product logo minimalist background, cinematic lighting")>>)

\* A call either returns a value or raises.
Returned(v) == [raised |-> FALSE, value |-> v]
Raised(e) == [raised |-> TRUE, value |-> e]

\* Outcomes of the awaited request: none yet, a rejection, or a response whose
\* text property is a string (hasText) or undefined.
NoResponse == [status |-> "none", hasText |-> FALSE, text |-> <<>>]
ThrownResponse == [status |-> "threw", hasText |-> FALSE, text |-> <<>>]
TextResponse(t) == [status |-> "ok", hasText |-> TRUE, text |-> t]
TextlessResponse == [status |-> "ok", hasText |-> FALSE, text |-> <<>>]

\* response.text || "[]"
TextOrEmptyArray(response) ==
    IF response.hasText /\ response.text # <<>> THEN response.text ELSE <<"[", "]">>

\* The inner try/catch of generateVisualPlan: JSON.parse of the cleaned text;
\* a SyntaxError is logged and rethrown.
ParsePlan(response) ==
    LET jsonText == cleanJson(TextOrEmptyArray(response))
        parsed == JsonParse(jsonText)
    IN  IF parsed.ok THEN Returned(parsed.val) ELSE Raised("SyntaxError")

\* generateVisualPlan without its outer catch: a failure reaches the caller.
PlanResultUncaught(response) ==
    IF response.status = "threw" THEN Raised("RequestError") ELSE ParsePlan(response)

\* The outer try/catch of generateVisualPlan: a throwing request and a rethrown
\* parse error both end in the fallback plan.
PlanResult(response) ==
    LET body == IF response.status = "threw" THEN Raised("RequestError") ELSE ParsePlan(response)
    IN  IF body.raised THEN Returned(FallbackPlan) ELSE body

\* Response texts the model may produce.
JsonAlphabet == {"[", "]", "{", "}", ",", " ", "7", "x", Backtick}

ValidPlanText ==
    <<"[", "{", "\"type\"", ":", "\"IMAGE\"", ",", "\"description\"", ":", "\"Intro\"", "}",
      ",", "{", "\"type\"", ":", "\"VIDEO\"", ",", "\"description\"", ":", "\"Intro\"", "}", "]">>

FencedPlanText ==
    <<Backtick, Backtick, Backtick, "json", "\n",
      "[", "{", "\"type\"", ":", "\"IMAGE\"", ",", "\"description\"", ":", "\"Intro\"", ",", "}",
      ",", "]", "\n", Backtick, Backtick, Backtick>>

BadTypePlanText ==
    <<"[", "{", "\"type\"", ":", "\"AUDIO\"", ",", "\"description\"", ":", "\"Intro\"", "}", "]">>

NoDescriptionPlanText == <<"[", "{", "\"type\"", ":", "\"IMAGE\"", "}", "]">>

PlanTexts ==
    SeqsUpTo(JsonAlphabet, MaxJsonLen)
        \cup {ValidPlanText, FencedPlanText, BadTypePlanText, NoDescriptionPlanText,
              <<"null">>, <<"\"Intro\"">>}

\* Longest frame sequence handed to generateVisualPlan.
MaxFrames == 23

\* Frame i (from 0) of the demo video: one frame every two seconds.
VideoFrame(i) == [timestamp |-> 2 * i, base64 |-> <<"jpeg", i>>]

\* The optional videoFrames argument: undefined, or an array of frames.
NoFrames == [present |-> FALSE, frames |-> <<>>]
Frames(n) == [present |-> TRUE, frames |-> [i \in 1..n |-> VideoFrame(i - 1)]]
FrameInputs == {NoFrames} \cup {Frames(n) : n \in 0..MaxFrames}

MAX_CONTEXT_FRAMES == 5

\* Stride rounded down instead of up.
FrameStepFloor(n) == n \div MAX_CONTEXT_FRAMES

\* Math.ceil(videoFrames.length / MAX_CONTEXT_FRAMES)
FrameStep(n) == (n + MAX_CONTEXT_FRAMES - 1) \div MAX_CONTEXT_FRAMES

\* The two parts pushed for one selected frame, and the prompt part.
FrameImagePart(frame) ==
    [kind |-> "inlineData", mimeType |-> "image/jpeg", data |-> frame.base64, text |-> <<>>]
FrameLabelPart(frame) ==
    [kind |-> "text", mimeType |-> "", data |-> <<>>,
     text |-> <<"[Timestamp: ", ToString(frame.timestamp), "s]">>]
PromptPart == [kind |-> "text", mimeType |-> "", data |-> <<>>, text |-> <<"textPrompt">>]

\* for (let i = 0; i < videoFrames.length; i += step), with the cap check
\* at the head of the body. i counts from 0, sequences from 1.
RECURSIVE SampleFrom(_, _, _, _)
SampleFrom(frames, i, step, parts) ==
    IF i >= Len(frames) THEN parts
    ELSE IF Len(parts) \div 2 >= MAX_CONTEXT_FRAMES THEN parts
    ELSE SampleFrom(frames, i + step, step,
                    parts \o <<FrameImagePart(frames[i + 1]), FrameLabelPart(frames[i + 1])>>)

\* frameParts: empty unless videoFrames is given and non-empty.
FrameParts(v) ==
    IF v.present /\ Len(v.frames) > 0
    THEN SampleFrom(v.frames, 0, FrameStep(Len(v.frames)), <<>>)
    ELSE <<>>

\* parts: [...frameParts, { text: textPrompt }]
RequestParts(v) == FrameParts(v) \o <<PromptPart>>

PlanInit ==
    /\ planPc = "start"
    /\ planResponse = NoResponse
    /\ planOutcome = Returned(JNull)
    /\ planFrames \in FrameInputs
    /\ planParts = <<>>

PlanIdle ==
    /\ planPc = "idle"
    /\ planResponse = NoResponse
    /\ planOutcome = Returned(JNull)
    /\ planFrames = NoFrames
    /\ planParts = <<>>

\* The frames are sampled, the prompt is built, ai.models.generateContent
\* is called; the call is awaited.
PlanRequest ==
    /\ planPc = "start"
    /\ planParts' = RequestParts(planFrames)
    /\ planPc' = "request"
    /\ UNCHANGED <<planResponse, planOutcome, planFrames>>

\* The request rejects.
PlanRequestThrows ==
    /\ planPc = "request"
    /\ planResponse' = ThrownResponse
    /\ planOutcome' = PlanResult(planResponse')
    /\ planPc' = "done"
    /\ UNCHANGED <<planFrames, planParts>>

\* The request resolves with a response, with or without text.
PlanRequestReturns ==
    /\ planPc = "request"
    /\ \E r \in {TextlessResponse} \cup {TextResponse(t) : t \in PlanTexts} :
          planResponse' = r
    /\ planOutcome' = PlanResult(planResponse')
    /\ planPc' = "done"
    /\ UNCHANGED <<planFrames, planParts>>

(***************************************************************************)
(* cleanScriptForTTS                                                       *)
(***************************************************************************)
\* text.replace(/\*+/g, '')
RemoveAsterisks(s) == SelectSeq(s, LAMBDA c : c # "*")

\* Index of the first lexeme at or after i that is close or a line break
\* (Len(s)+1 if none): "." does not match a line break.
RECURSIVE SpanEndFrom(_, _, _)
SpanEndFrom(s, i, close) ==
    IF i <= Len(s) /\ s[i] # close /\ s[i] # "\n" THEN SpanEndFrom(s, i + 1, close) ELSE i

\* s.replace(/<open>.*?<close>/g, ' '): each leftmost shortest span on one line
\* becomes one space.
RECURSIVE ReplaceSpansFrom(_, _, _, _)
ReplaceSpansFrom(s, i, open, close) ==
    IF i > Len(s) THEN <<>>
    ELSE LET j == SpanEndFrom(s, i + 1, close)
         IN  IF s[i] = open /\ j <= Len(s) /\ s[j] = close
             THEN <<" ">> \o ReplaceSpansFrom(s, j + 1, open, close)
             ELSE <<s[i]>> \o ReplaceSpansFrom(s, i + 1, open, close)

ReplaceSpans(s, open, close) == ReplaceSpansFrom(s, 1, open, close)

\* s.replace(/\s+/g, ' ')
RECURSIVE CollapseWhitespaceFrom(_, _)
CollapseWhitespaceFrom(s, i) ==
    IF i > Len(s) THEN <<>>
    ELSE IF s[i] \in Whitespace
         THEN <<" ">> \o CollapseWhitespaceFrom(s, SkipWsFrom(s, i + 1))
         ELSE <<s[i]>> \o CollapseWhitespaceFrom(s, i + 1)

CollapseWhitespace(s) == CollapseWhitespaceFrom(s, 1)

cleanScriptForTTS(text) ==
    Trim(CollapseWhitespace(
        ReplaceSpans(ReplaceSpans(RemoveAsterisks(text), "[", "]"), "(", ")")))

(***************************************************************************)
(* generateVoiceover                                                       *)
(***************************************************************************)
VARIABLES
    voicePc,        \* "idle", "start", "loop", "request", "backoff", "done"
    voiceText,      \* the text argument
    voiceClean,     \* cleanText
    voiceAttempt,   \* the loop variable attempt (0-based)
    voiceLastError, \* lastError, as the message it carries
    voiceTrace,     \* requests sent and timers started, in order
    voiceFailure,   \* message of the error the latest failed attempt raised
    voicePayload,   \* base64Audio of the latest response ("" when it had none)
    voiceOutcome    \* what generateVoiceover hands to its caller

voiceVars ==
    <<voicePc, voiceText, voiceClean, voiceAttempt, voiceLastError, voiceTrace,
      voiceFailure, voicePayload, voiceOutcome>>

\* for (let attempt = 0; attempt < 3; attempt++)
VoiceMaxAttempts == 3

\* A backoff computed from the 0-based attempt.
VoiceDelayZeroBased(attempt) == 2000 * attempt

\* setTimeout(resolve, 2000 * (attempt + 1))
VoiceDelay(attempt) == 2000 * (attempt + 1)

RequestEvent == [e |-> "request", ms |-> 0]
WaitEvent(ms) == [e |-> "wait", ms |-> ms]

EmptyScriptError == <<"Script is empty (or contained only unreadable content).">>
NoAudioMessage == "No audio data received from API."

\* `Failed to generate audio after 3 attempts. ${lastError?.message || ''}`
\* An error without a message is carried as "".
FinalVoiceError(lastMessage) ==
    <<"Failed to generate audio after ", "3 attempts", ". ", lastMessage>>

\* Messages of the errors a rejected request or a failed decode may carry.
\* A thrown value is an object: the catch block reads error.message.
ProviderMessages == {"Network error", ""}
DecodeMessages == {"Decode error"}
AudioPayloads == {"audio1", "audio2"}
UndecodablePayloads == {"garbled"}

TtsAlphabet == {"a", " ", "\n", "*", "[", "]", "(", ")"}

ExampleScript ==
    <<"Hello", " ", "*", "there", "*", " ", "[", "cue", "]", " ",
      "(", "aside", ")", " ", " ", "world">>

VoiceTexts == SeqsUpTo(TtsAlphabet, MaxTextLen) \cup {ExampleScript}

VoiceInit ==
    /\ voicePc = "start"
    /\ voiceText \in VoiceTexts
    /\ voiceClean = <<>>
    /\ voiceAttempt = 0
    /\ voiceLastError = ""
    /\ voiceTrace = <<>>
    /\ voiceFailure = ""
    /\ voicePayload = ""
    /\ voiceOutcome = Returned("")

VoiceIdle ==
    /\ voicePc = "idle"
    /\ voiceText = <<>>
    /\ voiceClean = <<>>
    /\ voiceAttempt = 0
    /\ voiceLastError = ""
    /\ voiceTrace = <<>>
    /\ voiceFailure = ""
    /\ voicePayload = ""
    /\ voiceOutcome = Returned("")

\* The text is cleaned but an empty cleanText is not refused.
VoiceStartUnchecked ==
    /\ voicePc = "start"
    /\ voiceClean' = cleanScriptForTTS(voiceText)
    /\ voiceOutcome' = voiceOutcome
    /\ voicePc' = "loop"
    /\ UNCHANGED <<voiceText, voiceAttempt, voiceLastError, voiceTrace, voiceFailure,
                   voicePayload>>

\* cleanText = cleanScriptForTTS(text); an empty cleanText throws at once.
VoiceStart ==
    /\ voicePc = "start"
    /\ voiceClean' = cleanScriptForTTS(voiceText)
    /\ IF voiceClean' = <<>>
       THEN /\ voiceOutcome' = Raised(EmptyScriptError)
            /\ voicePc' = "done"
       ELSE /\ voiceOutcome' = voiceOutcome
            /\ voicePc' = "loop"
    /\ UNCHANGED <<voiceText, voiceAttempt, voiceLastError, voiceTrace, voiceFailure,
                   voicePayload>>

\* The loop test holds: the synthesis request is sent and awaited.
VoiceRequest ==
    /\ voicePc = "loop"
    /\ voiceAttempt < VoiceMaxAttempts
    /\ voiceTrace' = Append(voiceTrace, RequestEvent)
    /\ voicePc' = "request"
    /\ UNCHANGED <<voiceText, voiceClean, voiceAttempt, voiceLastError, voiceFailure,
                   voiceOutcome,
                   voicePayload>>

\* A catch block that keeps the first error instead of the last.
VoiceCatchKeepsFirst(message) ==
    /\ voiceLastError' = IF voiceAttempt = 0 THEN message ELSE voiceLastError
    /\ voiceTrace' = Append(voiceTrace, WaitEvent(VoiceDelay(voiceAttempt)))
    /\ voicePc' = "backoff"
    /\ UNCHANGED <<voiceText, voiceClean, voiceAttempt, voiceOutcome>>

\* The catch block: log, remember the error, start the backoff timer.
VoiceCatch(message) ==
    /\ voiceLastError' = message
    /\ voiceTrace' = Append(voiceTrace, WaitEvent(VoiceDelay(voiceAttempt)))
    /\ voicePc' = "backoff"
    /\ UNCHANGED <<voiceText, voiceClean, voiceAttempt, voiceOutcome>>

\* The request rejects.
VoiceRequestThrows ==
    /\ voicePc = "request"
    /\ \E m \in ProviderMessages : VoiceCatch(m) /\ voiceFailure' = m
    /\ UNCHANGED voicePayload

\* The response carries no inline audio data.
VoiceNoPayload ==
    /\ voicePc = "request"
    /\ VoiceCatch(NoAudioMessage)
    /\ voiceFailure' = NoAudioMessage
    /\ voicePayload' = ""

\* The response carries audio data that decodeBase64/decodeAudioData rejects.
VoiceDecodeThrows ==
    /\ voicePc = "request"
    /\ \E m \in DecodeMessages : VoiceCatch(m) /\ voiceFailure' = m
    /\ voicePayload' \in UndecodablePayloads

\* The audio is decoded but the function does not return: the loop goes on.
VoiceSuccessNoReturn ==
    /\ voicePc = "request"
    /\ voicePayload' \in AudioPayloads
    /\ voiceOutcome' = Returned(voicePayload')
    /\ voiceAttempt' = voiceAttempt + 1
    /\ voicePc' = "loop"
    /\ UNCHANGED <<voiceText, voiceClean, voiceLastError, voiceTrace, voiceFailure>>

\* The response carries audio data that decodes: return { buffer, base64 }.
VoiceSuccess ==
    /\ voicePc = "request"
    /\ voicePayload' \in AudioPayloads
    /\ voiceOutcome' = Returned(voicePayload')
    /\ voicePc' = "done"
    /\ UNCHANGED <<voiceText, voiceClean, voiceAttempt, voiceLastError, voiceTrace,
                   voiceFailure>>

\* The backoff timer fires; the loop increments attempt.
VoiceTimer ==
    /\ voicePc = "backoff"
    /\ voiceAttempt' = voiceAttempt + 1
    /\ voicePc' = "loop"
    /\ UNCHANGED <<voiceText, voiceClean, voiceLastError, voiceTrace, voiceFailure,
                   voiceOutcome,
                   voicePayload>>

\* The loop test fails: throw the final error.
VoiceGiveUp ==
    /\ voicePc = "loop"
    /\ ~(voiceAttempt < VoiceMaxAttempts)
    /\ voiceOutcome' = Raised(FinalVoiceError(voiceLastError))
    /\ voicePc' = "done"
    /\ UNCHANGED <<voiceText, voiceClean, voiceAttempt, voiceLastError, voiceTrace,
                   voiceFailure,
                   voicePayload>>

(***************************************************************************)
(* generateAsset, generateWithFlux, generateWithGemini                     *)
(***************************************************************************)
VARIABLES
    assetPc,         \* "idle", "start", "flux_loop", "flux_request",
                     \* "flux_download", "flux_backoff", "gemini_request", "done"
    planItem,        \* the planItem argument
    platform,        \* the platform argument
    fluxArgs,        \* arguments of the generateWithFlux call
    fluxAttempt,     \* the loop variable attempt of generateWithFlux (1-based)
    fluxResult,      \* value generateWithFlux resolved to
    fluxLast,        \* how the latest attempt of generateWithFlux ended: "none",
                     \* "threw", "empty", "url", "download_threw", "downloaded"
    geminiArgs,      \* prompt and aspect ratio of the generateWithGemini request
    assetOutstanding, \* number of awaited network requests not yet settled
    producedData,    \* image data carried by provider responses so far
    assetTrace,      \* requests sent and timers started, in order
    assetOutcome     \* what generateAsset hands to its caller

assetVars ==
    <<assetPc, planItem, platform, fluxArgs, fluxAttempt, fluxResult, fluxLast,
      geminiArgs, assetOutstanding, producedData, assetTrace, assetOutcome>>

\* enum Platform
TIKTOK == "TikTok"
YOUTUBE == "YouTube"
INSTAGRAM == "Instagram"
GENERIC == "General Ad"
Platforms == {TIKTOK, YOUTUBE, INSTAGRAM, GENERIC}

\* An optional property of an object: present with value v, or absent.
Some(v) == [has |-> TRUE, v |-> v]
NoNumber == [has |-> FALSE, v |-> 0]
NoString == [has |-> FALSE, v |-> ""]

\* a || b for an optional number a: absent, 0 (and NaN) are falsy.
NumberOr(a, b) == IF a.has /\ a.v # 0 THEN a.v ELSE b

\* a || b for an optional string a: absent and "" are falsy.
StringOr(a, b) == IF a.has /\ a.v # "" THEN a.v ELSE b

\* interface VisualPlanItem
Descriptions == {"Intro"}
ImagePrompts == {"p1", ""}
PlanItems ==
    [type : {"IMAGE", "VIDEO"},
     description : Descriptions,
     imagePrompt : {NoString} \cup {Some(p) : p \in ImagePrompts},
     videoStartTime : {NoNumber} \cup {Some(t) : t \in 0..MaxTime},
     videoEndTime : {NoNumber} \cup {Some(t) : t \in 0..MaxTime}]

NullAsset == [type |-> "null"]

\* The video branch of generateAsset.
VideoAsset(item) ==
    [type |-> "video",
     description |-> item.description,
     videoStart |-> NumberOr(item.videoStartTime, 0),
     videoEnd |-> NumberOr(item.videoEndTime, 5)]

ImageAsset(base64, prompt, item) ==
    [type |-> "image", base64 |-> base64, prompt |-> prompt,
     description |-> item.description]

isPortrait(p) == p = TIKTOK \/ p = INSTAGRAM
FluxWidth(p) == IF isPortrait(p) THEN 768 ELSE 1024
FluxHeight(p) == IF isPortrait(p) THEN 1024 ELSE 768

\* The description is used even when an image prompt is given.
AssetPromptDescription(item) == item.description

\* planItem.imagePrompt || planItem.description
AssetPrompt(item) == StringOr(item.imagePrompt, item.description)

\* The second branch tests YouTube only.
AspectRatioYouTubeOnly(p) ==
    IF p = TIKTOK \/ p = INSTAGRAM THEN "9:16"
    ELSE IF p = YOUTUBE THEN "16:9"
    ELSE "1:1"

\* let aspectRatio ... of generateWithGemini
AspectRatio(p) ==
    IF p = TIKTOK \/ p = INSTAGRAM THEN "9:16"
    ELSE IF p = YOUTUBE \/ p = GENERIC THEN "16:9"
    ELSE "1:1"

MAX_RETRIES == 3
INITIAL_DELAY == 2000

RECURSIVE Pow(_, _)
Pow(b, n) == IF n = 0 THEN 1 ELSE b * Pow(b, n - 1)

\* A backoff that grows linearly: 1.5 * attempt * INITIAL_DELAY.
FluxDelayLinear(attempt) == (3 * attempt * INITIAL_DELAY) \div 2

\* Math.pow(1.5, attempt) * INITIAL_DELAY, exact while 2^attempt divides
\* INITIAL_DELAY * 3^attempt (attempt <= 4).
FluxDelay(attempt) == (Pow(3, attempt) * INITIAL_DELAY) \div Pow(2, attempt)

FluxEvent == [e |-> "flux", ms |-> 0]
DownloadEvent == [e |-> "download", ms |-> 0]
GeminiEvent == [e |-> "gemini", ms |-> 0]

\* A value generateWithFlux / generateWithGemini resolves to: null, or a string
\* (a download may yield an empty string).
NullData == [isNull |-> TRUE, data |-> ""]
Data(d) == [isNull |-> FALSE, data |-> d]
Truthy(r) == ~r.isNull /\ r.data # ""

\* result.data[0] of the predict response: nothing, a string, or an object
\* whose url property is url ("" when it has none).
FluxDescriptors ==
    [kind : {"none"}, url : {""}] \cup [kind : {"string", "object"}, url : {"", "http"}]

\* (typeof imageInfo === 'string') ? imageInfo : imageInfo?.url
ImageUrl(d) == IF d.kind = "none" THEN "" ELSE d.url

\* What blobToBase64 resolves to for a downloaded blob: the part of the data
\* URL after the comma, empty for an empty blob.
FluxPayloads == {"fluxImg", ""}

\* Parts of the fallback provider's response.
GeminiParts == {"text", "inline:", "inline:gemImg1", "inline:gemImg2"}
InlineData(part) ==
    CASE part = "inline:gemImg1" -> "gemImg1"
      [] part = "inline:gemImg2" -> "gemImg2"
      [] OTHER -> ""

\* Only the first part of the response is examined.
FirstPartOnly(parts) ==
    IF parts # <<>> /\ InlineData(Head(parts)) # "" THEN Data(InlineData(Head(parts)))
    ELSE NullData

\* The loop over response.candidates[0].content.parts: the first part with
\* inline data, else null.
RECURSIVE FirstInlineData(_)
FirstInlineData(parts) ==
    IF parts = <<>> THEN NullData
    ELSE IF InlineData(Head(parts)) # "" THEN Data(InlineData(Head(parts)))
    ELSE FirstInlineData(Tail(parts))

MaxParts == 2

AssetInit ==
    /\ assetPc = "start"
    /\ planItem \in PlanItems
    /\ platform \in Platforms
    /\ fluxArgs = [prompt |-> "", width |-> 0, height |-> 0]
    /\ fluxAttempt = 0
    /\ fluxResult = NullData
    /\ fluxLast = "none"
    /\ geminiArgs = [prompt |-> "", aspectRatio |-> ""]
    /\ assetOutstanding = 0
    /\ producedData = {}
    /\ assetTrace = <<>>
    /\ assetOutcome = Returned(NullAsset)

AssetIdle ==
    /\ assetPc = "idle"
    /\ planItem = [type |-> "IMAGE", description |-> "", imagePrompt |-> NoString,
                   videoStartTime |-> NoNumber, videoEndTime |-> NoNumber]
    /\ platform = GENERIC
    /\ fluxArgs = [prompt |-> "", width |-> 0, height |-> 0]
    /\ fluxAttempt = 0
    /\ fluxResult = NullData
    /\ fluxLast = "none"
    /\ geminiArgs = [prompt |-> "", aspectRatio |-> ""]
    /\ assetOutstanding = 0
    /\ producedData = {}
    /\ assetTrace = <<>>
    /\ assetOutcome = Returned(NullAsset)

\* if (planItem.type === 'VIDEO') return { type: 'video', ... }
AssetVideo ==
    /\ assetPc = "start"
    /\ planItem.type = "VIDEO"
    /\ assetOutcome' = Returned(VideoAsset(planItem))
    /\ assetPc' = "done"
    /\ UNCHANGED <<planItem, platform, fluxArgs, fluxAttempt, fluxResult, fluxLast,
                   geminiArgs, producedData, assetTrace,
                   assetOutstanding>>

\* The image branch: dimensions and prompt are fixed, generateWithFlux is called.
AssetImage ==
    /\ assetPc = "start"
    /\ planItem.type # "VIDEO"
    /\ fluxArgs' = [prompt |-> AssetPrompt(planItem),
                    width |-> FluxWidth(platform),
                    height |-> FluxHeight(platform)]
    /\ fluxAttempt' = 1
    /\ assetPc' = "flux_loop"
    /\ UNCHANGED <<planItem, platform, fluxResult, fluxLast, geminiArgs, producedData,
                   assetTrace, assetOutcome,
                   assetOutstanding>>

\* generateWithGemini resolved to r: an image asset, or the final null.
AfterGemini(r) ==
    /\ assetOutcome' =
          IF Truthy(r) THEN Returned(ImageAsset(r.data, fluxArgs.prompt, planItem))
          ELSE Returned(NullAsset)
    /\ assetPc' = "done"
    /\ assetOutstanding' = assetOutstanding - 1

\* The fallback is called whatever generateWithFlux resolved to.
AfterFluxAlwaysFallback(r, trace) ==
    /\ fluxResult' = r
    /\ assetOutcome' = assetOutcome
    /\ assetPc' = "gemini_request"
    /\ assetTrace' = Append(trace, GeminiEvent)
    /\ geminiArgs' = [prompt |-> fluxArgs.prompt, aspectRatio |-> AspectRatio(platform)]
    /\ assetOutstanding' = (assetOutstanding - 1) + 1

\* generateWithFlux resolved to r after the events of trace: an image asset when
\* r is truthy, otherwise generateWithGemini is called and its request sent.
AfterFlux(r, trace) ==
    /\ fluxResult' = r
    /\ IF Truthy(r)
       THEN /\ assetOutcome' = Returned(ImageAsset(r.data, fluxArgs.prompt, planItem))
            /\ assetPc' = "done"
            /\ assetTrace' = trace
            /\ geminiArgs' = geminiArgs
            /\ assetOutstanding' = assetOutstanding - 1
       ELSE /\ assetOutcome' = assetOutcome
            /\ assetPc' = "gemini_request"
            /\ assetTrace' = Append(trace, GeminiEvent)
            /\ geminiArgs' = [prompt |-> fluxArgs.prompt,
                              aspectRatio |-> AspectRatio(platform)]
            /\ assetOutstanding' = (assetOutstanding - 1) + 1

\* The loop test of generateWithFlux holds: connect and predict are awaited.
FluxRequest ==
    /\ assetPc = "flux_loop"
    /\ fluxAttempt <= MAX_RETRIES
    /\ assetTrace' = Append(assetTrace, FluxEvent)
    /\ assetPc' = "flux_request"
    /\ UNCHANGED <<planItem, platform, fluxArgs, fluxAttempt, fluxResult, fluxLast,
                   geminiArgs, producedData, assetOutcome>>
    /\ assetOutstanding' = assetOutstanding + 1

\* A catch block after which the loop never ends: every exception is
\* followed by the backoff timer.
FluxCatchNeverLeaves ==
    /\ assetTrace' = Append(assetTrace, WaitEvent(FluxDelay(fluxAttempt)))
    /\ assetOutstanding' = assetOutstanding - 1
    /\ assetPc' = "flux_backoff"
    /\ UNCHANGED <<planItem, platform, fluxArgs, fluxAttempt, fluxResult,
                   geminiArgs, producedData, assetOutcome>>

\* The catch block of generateWithFlux: after the last attempt the loop ends
\* and null is returned; otherwise the backoff timer is started.
FluxCatch ==
    IF fluxAttempt = MAX_RETRIES
    THEN /\ fluxAttempt' = fluxAttempt + 1
         /\ AfterFlux(NullData, assetTrace)
         /\ UNCHANGED <<planItem, platform, fluxArgs, producedData>>
    ELSE /\ assetTrace' = Append(assetTrace, WaitEvent(FluxDelay(fluxAttempt)))
         /\ assetOutstanding' = assetOutstanding - 1
         /\ assetPc' = "flux_backoff"
         /\ UNCHANGED <<planItem, platform, fluxArgs, fluxAttempt, fluxResult,
                        geminiArgs, producedData, assetOutcome>>

\* Client.connect or client.predict rejects.
FluxRequestThrows ==
    /\ assetPc = "flux_request"
    /\ fluxLast' = "threw"
    /\ FluxCatch

\* An empty response handled like an exception: the catch block runs.
FluxRespondsEmptyRetried ==
    /\ assetPc = "flux_request"
    /\ \E d \in FluxDescriptors : ImageUrl(d) = ""
    /\ fluxLast' = "empty"
    /\ FluxCatch

\* The response names no image: return null.
FluxRespondsEmpty ==
    /\ assetPc = "flux_request"
    /\ \E d \in FluxDescriptors : ImageUrl(d) = ""
    /\ fluxLast' = "empty"
    /\ AfterFlux(NullData, assetTrace)
    /\ UNCHANGED <<planItem, platform, fluxArgs, fluxAttempt, producedData>>

\* The response names an image: it is fetched.
FluxRespondsUrl ==
    /\ assetPc = "flux_request"
    /\ \E d \in FluxDescriptors : ImageUrl(d) # ""
    /\ fluxLast' = "url"
    /\ assetTrace' = Append(assetTrace, DownloadEvent)
    /\ assetPc' = "flux_download"
    /\ UNCHANGED <<planItem, platform, fluxArgs, fluxAttempt, fluxResult, geminiArgs,
                   producedData, assetOutcome>>
    /\ assetOutstanding' = (assetOutstanding - 1) + 1

\* fetch, res.blob or blobToBase64 rejects.
FluxDownloadThrows ==
    /\ assetPc = "flux_download"
    /\ fluxLast' = "download_threw"
    /\ FluxCatch

\* The download is encoded: return base64.
FluxDownloaded ==
    /\ assetPc = "flux_download"
    /\ fluxLast' = "downloaded"
    /\ \E b \in FluxPayloads :
          /\ producedData' = IF b # "" THEN producedData \cup {b} ELSE producedData
          /\ AfterFlux(Data(b), assetTrace)
    /\ UNCHANGED <<planItem, platform, fluxArgs, fluxAttempt>>

\* The backoff timer fires; the loop increments attempt.
FluxTimer ==
    /\ assetPc = "flux_backoff"
    /\ fluxAttempt' = fluxAttempt + 1
    /\ assetPc' = "flux_loop"
    /\ UNCHANGED <<planItem, platform, fluxArgs, fluxResult, fluxLast, geminiArgs,
                   producedData, assetTrace, assetOutcome,
                   assetOutstanding>>

\* The fallback request rejects: the catch block returns null.
GeminiThrows ==
    /\ assetPc = "gemini_request"
    /\ AfterGemini(NullData)
    /\ UNCHANGED <<planItem, platform, fluxArgs, fluxAttempt, fluxResult, fluxLast,
                   geminiArgs, producedData, assetTrace>>

\* The fallback request resolves with some parts (none when candidates or parts
\* are missing).
GeminiResponds ==
    /\ assetPc = "gemini_request"
    /\ \E parts \in SeqsUpTo(GeminiParts, MaxParts) :
          /\ producedData' =
                producedData \cup
                    {InlineData(parts[i]) : i \in {j \in 1..Len(parts) : InlineData(parts[j]) # ""}}
          /\ AfterGemini(FirstInlineData(parts))
    /\ UNCHANGED <<planItem, platform, fluxArgs, fluxAttempt, fluxResult, fluxLast,
                   geminiArgs, assetTrace>>

(***************************************************************************)
(* generateSalesScript                                                     *)
(***************************************************************************)
VARIABLES
    scriptPc,        \* "idle", "start", "request", "done"
    scriptPlatform,  \* the platform argument
    scriptPrompt,    \* platformInstructions placed in the prompt
    scriptRequests,  \* number of model requests sent
    scriptResponse,  \* outcome of the model request
    scriptError,     \* message of the error the request rejected with
    scriptOutcome    \* what generateSalesScript hands to its caller

scriptVars ==
    <<scriptPc, scriptPlatform, scriptPrompt, scriptRequests, scriptResponse,
      scriptError, scriptOutcome>>

\* switch (platform) of generateSalesScript
PlatformInstructions(p) ==
    CASE p = YOUTUBE -> "FORMAT: Educational tutorial style. Tone: Authoritative, helpful."
      [] p = TIKTOK ->
            "FORMAT: Viral TikTok style. High energy. Start with a hook. Tone: Hype, fast."
      [] p = INSTAGRAM -> "FORMAT: Aesthetic Instagram Reel. Tone: Trendy, polished."
      [] OTHER -> "FORMAT: Standard ad. Tone: Professional, persuasive."

\* "Failed to generate script.", as returned placeholder and as error message.
ScriptFailure == <<"Failed to generate script.">>

\* The response text is returned as it is, empty or not.
TextAsIs(response) == IF response.hasText THEN response.text ELSE <<>>

\* response.text || "Failed to generate script."
TextOrFailure(response) ==
    IF response.hasText /\ response.text # <<>> THEN response.text ELSE ScriptFailure

\* The try/catch of generateSalesScript.
ScriptResult(response) ==
    IF response.status = "threw" THEN Raised(ScriptFailure)
    ELSE Returned(TextOrFailure(response))

\* Texts the model may answer with.
ScriptTexts == VoiceTexts

ScriptInit ==
    /\ scriptPc = "start"
    /\ scriptPlatform \in Platforms
    /\ scriptPrompt = ""
    /\ scriptRequests = 0
    /\ scriptResponse = NoResponse
    /\ scriptError = ""
    /\ scriptOutcome = Returned(<<>>)

ScriptIdle ==
    /\ scriptPc = "idle"
    /\ scriptPlatform = GENERIC
    /\ scriptPrompt = ""
    /\ scriptRequests = 0
    /\ scriptResponse = NoResponse
    /\ scriptError = ""
    /\ scriptOutcome = Returned(<<>>)

\* The prompt is built; ai.models.generateContent is called and awaited.
ScriptRequest ==
    /\ scriptPc = "start"
    /\ scriptPrompt' = PlatformInstructions(scriptPlatform)
    /\ scriptRequests' = scriptRequests + 1
    /\ scriptPc' = "request"
    /\ UNCHANGED <<scriptPlatform, scriptResponse, scriptError, scriptOutcome>>

\* The request rejects: the catch block throws the generic error.
ScriptRequestThrows ==
    /\ scriptPc = "request"
    /\ scriptError' \in ProviderMessages
    /\ scriptResponse' = ThrownResponse
    /\ scriptOutcome' = ScriptResult(scriptResponse')
    /\ scriptPc' = "done"
    /\ UNCHANGED <<scriptPlatform, scriptPrompt, scriptRequests>>

\* The request resolves with a response, with or without text.
ScriptRequestReturns ==
    /\ scriptPc = "request"
    /\ \E r \in {TextlessResponse} \cup {TextResponse(t) : t \in ScriptTexts} :
          scriptResponse' = r
    /\ scriptOutcome' = ScriptResult(scriptResponse')
    /\ scriptPc' = "done"
    /\ UNCHANGED <<scriptPlatform, scriptPrompt, scriptRequests, scriptError>>


(***************************************************************************)
(* cleanJson applied to model answers: a JSON array inside markdown code   *)
(* fences, with prose before and after, the empty answer, and the fenced   *)
(* one-object answer with trailing commas.                                 *)
(***************************************************************************)
VARIABLES
    cleanPc,      \* "idle", "start", "done"
    cleanInput,   \* the text argument of cleanJson, with how it was built
    cleanOutput   \* the string cleanJson returned

cleanVars == <<cleanPc, cleanInput, cleanOutput>>

\* Longest prose before and after the fenced array.
MaxProseLen == 2

ProseAlphabet == {"x", " ", "[", "]"}

\* Well-formed arrays, some with the trailing commas models tend to emit.
FencedArrays ==
    {<<"[", "]">>,
     <<"[", "7", "]">>,
     <<"[", "7", ",", " ", "]">>,
     <<"[", "[", "7", ",", "]", ",", "7", "]">>,
     <<"[", "{", "\"type\"", ":", "\"IMAGE\"", ",", "\"description\"", ":", "\"Intro\"", ",", "}",
       ",", "]">>}

WrappedInput(pre, array, post) ==
    [kind |-> "wrapped", array |-> array,
     text |-> pre \o FenceJson \o <<"\n">> \o array \o <<"\n">> \o Fence \o post]

CleanInputs ==
    {[kind |-> "empty", array |-> <<>>, text |-> <<>>],
     [kind |-> "example", array |-> <<>>, text |-> FencedPlanText]}
        \cup {WrappedInput(pre, array, post) :
                pre \in SeqsUpTo(ProseAlphabet, MaxProseLen),
                array \in FencedArrays,
                post \in SeqsUpTo(ProseAlphabet, MaxProseLen)}

CleanInit ==
    /\ cleanPc = "start"
    /\ cleanInput \in CleanInputs
    /\ cleanOutput = <<>>

CleanIdle ==
    /\ cleanPc = "idle"
    /\ cleanInput = [kind |-> "empty", array |-> <<>>, text |-> <<>>]
    /\ cleanOutput = <<>>

\* cleanJson(text) is evaluated.
CleanJsonCall ==
    /\ cleanPc = "start"
    /\ cleanOutput' = cleanJson(cleanInput.text)
    /\ cleanPc' = "done"
    /\ UNCHANGED cleanInput


(***************************************************************************)
(* extractTextFromZip.  A file name is a sequence of lexemes whose last    *)
(* lexeme is the extension (from the last dot on) when it has one; the     *)
(* content of an entry is its length in characters, whether it holds a     *)
(* null character, and whether decoding it succeeds.                       *)
(***************************************************************************)
VARIABLES
    zipPc,        \* "idle", "start", "reading", "done"
    zipEntries,   \* the entries of the archive, in Object.keys order
    zipOutcome    \* what the promise of extractTextFromZip settles to

zipVars == <<zipPc, zipEntries, zipOutcome>>

\* Most entries in an archive, and the longest repeated pattern of entries.
MaxEntries == 52
MaxPattern == 2

RELEVANT_EXTENSIONS ==
    {".txt", ".md", ".json", ".js", ".ts", ".tsx", ".jsx",
     ".html", ".css", ".py", ".java", ".c", ".cpp", ".h"}

MAX_FILES == 50
MAX_TOTAL_SIZE == 500 * 1024

\* String.prototype.toLowerCase on the lexemes of the names used here.
ToLowerCase(c) ==
    CASE c = "README" -> "readme"
      [] c = ".JSON" -> ".json"
      [] OTHER -> c
LowerName(name) == [i \in DOMAIN name |-> ToLowerCase(name[i])]

\* a.toLowerCase().includes('readme')
HasReadme(name) == \E i \in DOMAIN name : LowerName(name)[i] = "readme"

\* RELEVANT_EXTENSIONS.some(ext => filename.toLowerCase().endsWith(ext))
IsRelevant(name) ==
    name # <<>> /\ LowerName(name)[Len(name)] \in RELEVANT_EXTENSIONS

Content(length, hasNull, readable) ==
    [length |-> length, hasNull |-> hasNull, readable |-> readable]

\* The kinds of entry an archive is built from, and the i-th entry of a kind.
EntryKinds ==
    {"file", "readme", "dir", "image", "binary", "readmeImage", "big", "corrupt"}

Entry(kind, i) ==
    CASE kind = "file" ->
            [name |-> <<"src/", ToString(i), ".ts">>, dir |-> FALSE,
             content |-> Content(2 * 1024, FALSE, TRUE)]
      [] kind = "readme" ->
            [name |-> <<"pkg", ToString(i), "/", "README", ".md">>, dir |-> FALSE,
             content |-> Content(1024, FALSE, TRUE)]
      [] kind = "dir" ->
            [name |-> <<"dir", ToString(i), "/">>, dir |-> TRUE,
             content |-> Content(0, FALSE, TRUE)]
      [] kind = "image" ->
            [name |-> <<"img", ToString(i), ".png">>, dir |-> FALSE,
             content |-> Content(4 * 1024, TRUE, TRUE)]
      [] kind = "binary" ->
            [name |-> <<"bin", ToString(i), ".txt">>, dir |-> FALSE,
             content |-> Content(1024, TRUE, TRUE)]
      [] kind = "readmeImage" ->
            [name |-> <<"readme", ToString(i), ".png">>, dir |-> FALSE,
             content |-> Content(1024, FALSE, TRUE)]
      [] kind = "big" ->
            [name |-> <<"big", ToString(i), ".JSON">>, dir |-> FALSE,
             content |-> Content(300 * 1024, FALSE, TRUE)]
      [] OTHER ->
            [name |-> <<"bad", ToString(i), ".py">>, dir |-> FALSE,
             content |-> Content(1024, FALSE, FALSE)]

\* The archive of n entries whose kinds repeat the pattern.
Archive(pattern, n) ==
    [i \in 1..n |-> Entry(pattern[((i - 1) % Len(pattern)) + 1], i)]

Archives ==
    {Archive(pattern, n) :
        pattern \in SeqsUpTo(EntryKinds, MaxPattern) \ {<<>>}, n \in 0..MaxEntries}

\* The entries are left in archive order.
ArchiveOrder(entries) == entries

\* entries.sort(...) with score -1 for names containing "readme" and 1 for
\* the others: the sort is stable, so each group keeps its archive order.
SortedEntries(entries) ==
    SelectSeq(entries, LAMBDA e : HasReadme(e.name))
        \o SelectSeq(entries, LAMBDA e : ~HasReadme(e.name))

ReadError == "entry could not be decoded"
LoadError == "archive could not be loaded"
ReaderError == "file could not be read"

\* The loop leaves before entry i: both break tests, or no entry is left.
LoopEnds(sorted, i, files, totalSize) ==
    i > Len(sorted) \/ Len(files) >= MAX_FILES \/ totalSize >= MAX_TOTAL_SIZE

\* The three continue statements: a directory, a name without an
\* allow-listed extension, a decoded content holding a null character.
Skipped(entry) ==
    entry.dir \/ ~IsRelevant(entry.name) \/ (entry.content.readable /\ entry.content.hasNull)

\* await fileEntry.async('string') rejects; reached only for a relevant file.
ReadFails(entry) ==
    ~entry.dir /\ IsRelevant(entry.name) /\ ~entry.content.readable

\* for (const filename of sortedEntries) { ... }; resolve(files), from entry
\* i on; a failing fileEntry.async('string') is caught and rejects.
RECURSIVE ExtractFrom(_, _, _, _)
ExtractFrom(sorted, i, files, totalSize) ==
    CASE LoopEnds(sorted, i, files, totalSize) -> Returned(files)
      [] ~LoopEnds(sorted, i, files, totalSize) /\ ReadFails(sorted[i]) -> Raised(ReadError)
      [] ~LoopEnds(sorted, i, files, totalSize) /\ Skipped(sorted[i]) ->
            ExtractFrom(sorted, i + 1, files, totalSize)
      [] OTHER ->
            ExtractFrom(sorted, i + 1,
                        Append(files, [name |-> sorted[i].name, content |-> sorted[i].content]),
                        totalSize + sorted[i].content.length)

ExtractResult(entries) == ExtractFrom(SortedEntries(entries), 1, <<>>, 0)

ZipInit ==
    /\ zipPc = "start"
    /\ zipEntries \in Archives
    /\ zipOutcome = Returned(<<>>)

ZipIdle ==
    /\ zipPc = "idle"
    /\ zipEntries = <<>>
    /\ zipOutcome = Returned(<<>>)

\* reader.readAsArrayBuffer(file)
ZipRead ==
    /\ zipPc = "start"
    /\ zipPc' = "reading"
    /\ UNCHANGED <<zipEntries, zipOutcome>>

\* reader.onerror: the promise rejects.
ZipReaderError ==
    /\ zipPc = "reading"
    /\ zipOutcome' = Raised(ReaderError)
    /\ zipPc' = "done"
    /\ UNCHANGED zipEntries

\* reader.onload, zip.loadAsync rejects: the catch block rejects.
ZipLoadThrows ==
    /\ zipPc = "reading"
    /\ zipOutcome' = Raised(LoadError)
    /\ zipPc' = "done"
    /\ UNCHANGED zipEntries

\* reader.onload, the archive loads: the entries are sorted and filtered.
ZipExtract ==
    /\ zipPc = "reading"
    /\ zipOutcome' = ExtractResult(zipEntries)
    /\ zipPc' = "done"
    /\ UNCHANGED zipEntries


(***************************************************************************)
(* Specifications: one per entry point, the other entry points idle.       *)
(***************************************************************************)
vars == <<planVars, voiceVars, assetVars, scriptVars, cleanVars, zipVars>>

InitPlan ==
    /\ PlanInit
    /\ VoiceIdle
    /\ AssetIdle
    /\ ScriptIdle
    /\ CleanIdle
    /\ ZipIdle
ExceptPlan == <<voiceVars, assetVars, scriptVars, cleanVars, zipVars>>
NextPlan ==
    \/ PlanRequest /\ UNCHANGED ExceptPlan
    \/ PlanRequestThrows /\ UNCHANGED ExceptPlan
    \/ PlanRequestReturns /\ UNCHANGED ExceptPlan
SpecPlan == InitPlan /\ [][NextPlan]_vars

InitVoice ==
    /\ VoiceInit
    /\ PlanIdle
    /\ AssetIdle
    /\ ScriptIdle
    /\ CleanIdle
    /\ ZipIdle
ExceptVoice == <<planVars, assetVars, scriptVars, cleanVars, zipVars>>
NextVoice ==
    \/ VoiceStart /\ UNCHANGED ExceptVoice
    \/ VoiceRequest /\ UNCHANGED ExceptVoice
    \/ VoiceRequestThrows /\ UNCHANGED ExceptVoice
    \/ VoiceNoPayload /\ UNCHANGED ExceptVoice
    \/ VoiceDecodeThrows /\ UNCHANGED ExceptVoice
    \/ VoiceSuccess /\ UNCHANGED ExceptVoice
    \/ VoiceTimer /\ UNCHANGED ExceptVoice
    \/ VoiceGiveUp /\ UNCHANGED ExceptVoice
SpecVoice == InitVoice /\ [][NextVoice]_vars

InitAsset ==
    /\ AssetInit
    /\ PlanIdle
    /\ VoiceIdle
    /\ ScriptIdle
    /\ CleanIdle
    /\ ZipIdle
ExceptAsset == <<planVars, voiceVars, scriptVars, cleanVars, zipVars>>
NextAsset ==
    \/ AssetVideo /\ UNCHANGED ExceptAsset
    \/ AssetImage /\ UNCHANGED ExceptAsset
    \/ FluxRequest /\ UNCHANGED ExceptAsset
    \/ FluxRequestThrows /\ UNCHANGED ExceptAsset
    \/ FluxRespondsEmpty /\ UNCHANGED ExceptAsset
    \/ FluxRespondsUrl /\ UNCHANGED ExceptAsset
    \/ FluxDownloadThrows /\ UNCHANGED ExceptAsset
    \/ FluxDownloaded /\ UNCHANGED ExceptAsset
    \/ FluxTimer /\ UNCHANGED ExceptAsset
    \/ GeminiThrows /\ UNCHANGED ExceptAsset
    \/ GeminiResponds /\ UNCHANGED ExceptAsset
SpecAsset == InitAsset /\ [][NextAsset]_vars

InitScript ==
    /\ ScriptInit
    /\ PlanIdle
    /\ VoiceIdle
    /\ AssetIdle
    /\ CleanIdle
    /\ ZipIdle
ExceptScript == <<planVars, voiceVars, assetVars, cleanVars, zipVars>>
NextScript ==
    \/ ScriptRequest /\ UNCHANGED ExceptScript
    \/ ScriptRequestThrows /\ UNCHANGED ExceptScript
    \/ ScriptRequestReturns /\ UNCHANGED ExceptScript
SpecScript == InitScript /\ [][NextScript]_vars

InitClean ==
    /\ CleanInit
    /\ PlanIdle
    /\ VoiceIdle
    /\ AssetIdle
    /\ ScriptIdle
    /\ ZipIdle
ExceptClean == <<planVars, voiceVars, assetVars, scriptVars, zipVars>>
NextClean ==
    \/ CleanJsonCall /\ UNCHANGED ExceptClean
SpecClean == InitClean /\ [][NextClean]_vars

InitZip ==
    /\ ZipInit
    /\ PlanIdle
    /\ VoiceIdle
    /\ AssetIdle
    /\ ScriptIdle
    /\ CleanIdle
ExceptZip == <<planVars, voiceVars, assetVars, scriptVars, cleanVars>>
NextZip ==
    \/ ZipRead /\ UNCHANGED ExceptZip
    \/ ZipReaderError /\ UNCHANGED ExceptZip
    \/ ZipLoadThrows /\ UNCHANGED ExceptZip
    \/ ZipExtract /\ UNCHANGED ExceptZip
SpecZip == InitZip /\ [][NextZip]_vars

\* generateAsset with every provider call and every backoff timer eventually
\* completing: a step that stays possible is eventually taken.
SpecAssetFair == SpecAsset /\ WF_vars(NextAsset)

Init == InitPlan \/ InitVoice \/ InitAsset \/ InitScript \/ InitClean \/ InitZip
Next == NextPlan \/ NextVoice \/ NextAsset \/ NextScript \/ NextClean \/ NextZip
Spec == Init /\ [][Next]_vars

(***************************************************************************)
(* Properties of generateVisualPlan.                                       *)
(***************************************************************************)
\* The value of the last field named key of a parsed object (JNull if none).
RECURSIVE FieldOf(_, _)
FieldOf(fields, key) ==
    IF fields = <<>> THEN JNull
    ELSE IF fields[Len(fields)].key = key THEN fields[Len(fields)].val
    ELSE FieldOf(SubSeq(fields, 1, Len(fields) - 1), key)

IsStringIn(v, S) == v.k = "str" /\ v.s \in S

WellFormedScene(v) ==
    /\ v.k = "obj"
    /\ IsStringIn(FieldOf(v.fields, "type"), {"IMAGE", "VIDEO"})
    /\ FieldOf(v.fields, "description").k = "str"

WellFormedPlan(v) ==
    /\ v.k = "arr"
    /\ Len(v.items) >= 1
    /\ \A i \in 1..Len(v.items) : WellFormedScene(v.items[i])

FallbackDescriptions == <<"Intro", "Feature Highlight", "User Benefit", "Call to Action">>

IsFallbackPlan(v) ==
    /\ v.k = "arr"
    /\ Len(v.items) = 4
    /\ \A i \in 1..4 :
          /\ v.items[i].k = "obj"
          /\ IsStringIn(FieldOf(v.items[i].fields, "type"), {"IMAGE"})
          /\ IsStringIn(FieldOf(v.items[i].fields, "description"), {FallbackDescriptions[i]})

\* C1: whatever the model request does, generateVisualPlan returns an array of
\* at least one scene, each with type IMAGE or VIDEO and a description.
C1_PlanNonEmptyWellFormed ==
    planPc = "done" => ~planOutcome.raised /\ WellFormedPlan(planOutcome.value)

\* The cleaned text of the response does not parse as JSON.
ParseFails(response) ==
    response.status = "ok" /\ ~JsonParse(cleanJson(TextOrEmptyArray(response))).ok

\* C2: generateVisualPlan never raises, and when the request throws or the
\* cleaned response text does not parse it returns the fixed fallback plan:
\* 4 IMAGE scenes described Intro, Feature Highlight, User Benefit, Call to
\* Action, in that order.
C2_FallbackOnFailure ==
    planPc = "done" =>
        /\ ~planOutcome.raised
        /\ (planResponse.status = "threw" \/ ParseFails(planResponse))
              => IsFallbackPlan(planOutcome.value)

\* A response whose text stays unparseable after cleaning ended in the fallback.
C2_Witness ==
    /\ planPc = "done"
    /\ planResponse = TextResponse(<<"[", "7", "x">>)
    /\ ParseFails(planResponse)
    /\ IsFallbackPlan(planOutcome.value)

(***************************************************************************)
(* Properties of generateAsset.                                            *)
(***************************************************************************)
\* Number of events of kind e in a trace.
CountEvents(trace, e) == Cardinality({i \in 1..Len(trace) : trace[i].e = e})

\* generateWithFlux has resolved, for an IMAGE item.
FluxReturned == planItem.type # "VIDEO" /\ assetPc \in {"gemini_request", "done"}

FluxThrew == fluxLast \in {"threw", "download_threw"}

C4_NullIffNoImageData ==
    (assetPc = "done" /\ planItem.type = "IMAGE") =>
        /\ ~assetOutcome.raised
        /\ assetOutcome.value = NullAsset <=> producedData = {}

\* Three failed primary attempts and a fallback without image data end in null.
C4_Witness ==
    /\ assetPc = "done"
    /\ planItem.type = "IMAGE"
    /\ CountEvents(assetTrace, "flux") = MAX_RETRIES
    /\ CountEvents(assetTrace, "gemini") = 1
    /\ fluxLast = "download_threw"
    /\ producedData = {}
    /\ assetOutcome = Returned(NullAsset)

FluxBefore(trace, i) == Cardinality({j \in 1..i : trace[j].e = "flux"})

\* C9: the wait after failed attempt 1 is 3000 ms, after failed attempt 2 it
\* is 4500 ms, each follows an exception, and no wait follows attempt 3.
C9_FluxBackoff ==
    /\ \A i \in 1..Len(assetTrace) :
          assetTrace[i].e = "wait" =>
              /\ FluxBefore(assetTrace, i) \in {1, 2}
              /\ FluxBefore(assetTrace, i) = 1 => assetTrace[i].ms = 3000
              /\ FluxBefore(assetTrace, i) = 2 => assetTrace[i].ms = 4500
    /\ assetPc = "flux_backoff" =>
          /\ FluxThrew
          /\ assetTrace[Len(assetTrace)].e = "wait"
          /\ FluxBefore(assetTrace, Len(assetTrace)) = fluxAttempt
    /\ (FluxThrew /\ ~FluxReturned /\ CountEvents(assetTrace, "flux") < MAX_RETRIES) =>
          CountEvents(assetTrace, "wait") >= 1
    /\ FluxReturned =>
          /\ CountEvents(assetTrace, "wait") = CountEvents(assetTrace, "flux") - 1
          /\ \A i \in 1..Len(assetTrace) :
                assetTrace[i].e = "wait" => i < Len(assetTrace) /\ assetTrace[i + 1].e = "flux"

\* All three attempts threw: two waits were taken and the third failure went
\* straight on to the fallback request.
C9_Witness ==
    /\ assetPc = "gemini_request"
    /\ fluxLast = "threw"
    /\ CountEvents(assetTrace, "flux") = MAX_RETRIES
    /\ CountEvents(assetTrace, "wait") = 2
    /\ assetTrace[Len(assetTrace) - 1].e = "flux"

\* C10: for a VIDEO item no provider is called and the video asset carries
\* the description, videoStartTime and videoEndTime when present (0
\* included), with 0 and 5 only for an absent field.
C10_VideoPassThrough ==
    (assetPc = "done" /\ planItem.type = "VIDEO") =>
        /\ assetTrace = <<>>
        /\ ~assetOutcome.raised
        /\ assetOutcome.value.type = "video"
        /\ assetOutcome.value.description = planItem.description
        /\ assetOutcome.value.videoStart =
              (IF planItem.videoStartTime.has THEN planItem.videoStartTime.v ELSE 0)
        /\ assetOutcome.value.videoEnd =
              (IF planItem.videoEndTime.has THEN planItem.videoEndTime.v ELSE 5)

(***************************************************************************)
(* Properties of generateVoiceover.                                        *)
(***************************************************************************)
\* The elements of a sequence.
Range(s) == {s[i] : i \in 1..Len(s)}

\* generateVoiceover has raised an error other than the empty-script error.
VoiceFailed == voicePc = "done" /\ voiceOutcome.raised /\ voiceClean # <<>>

\* C6: with a non-empty cleaned script, the call raises only after exactly 3
\* requests have failed, and the error message contains "3 attempts" and
\* the message of the last underlying error.
C6_FailsAfterThreeAttempts ==
    /\ VoiceFailed =>
          /\ CountEvents(voiceTrace, "request") = 3
          /\ "3 attempts" \in Range(voiceOutcome.value)
          /\ voiceOutcome.value[Len(voiceOutcome.value)] = voiceFailure
    /\ (voiceClean # <<>> /\ CountEvents(voiceTrace, "request") < 3) => ~voiceOutcome.raised
    /\ (voicePc = "request" /\ CountEvents(voiceTrace, "request") = 3) => ~voiceOutcome.raised

\* Three attempts failed, the last one for a missing audio payload.
C6_Witness ==
    /\ VoiceFailed
    /\ voiceText = <<"a">>
    /\ CountEvents(voiceTrace, "request") = 3
    /\ voiceFailure = NoAudioMessage
    /\ voiceOutcome.value = FinalVoiceError(NoAudioMessage)

\* Texts made only of whitespace, asterisks, bracketed cues and asides.
UnreadableTexts ==
    {<<>>, <<" ", "\n">>, <<"*", " ", "*">>, <<"[", "a", "]">>, <<"(", "a", ")">>,
     <<"[", "]", "*">>, <<"(", ")">>}

\* C7: when the text cleans to the empty string the call fails at once with
\* the empty-script error: no request is sent and no backoff timer started.
C7_EmptyScriptFailsFast ==
    /\ (voicePc \notin {"idle", "start"} /\ cleanScriptForTTS(voiceText) = <<>>) =>
          /\ voicePc = "done"
          /\ voiceOutcome = Raised(EmptyScriptError)
          /\ voiceTrace = <<>>
    /\ (voicePc \notin {"idle", "start"} /\ voiceText \in UnreadableTexts) =>
          /\ voiceOutcome = Raised(EmptyScriptError)
          /\ voiceTrace = <<>>

\* A text that is one bracketed cue was refused without any request.
C7_Witness ==
    /\ voicePc = "done"
    /\ voiceText = <<"[", "a", "]">>
    /\ voiceOutcome = Raised(EmptyScriptError)
    /\ voiceTrace = <<>>

\* Number of requests among the first i events of a trace.
RequestsBefore(trace, i) == Cardinality({j \in 1..i : trace[j].e = "request"})

\* The wait after the k-th failed attempt is 2000 * k ms.
LinearWaits ==
    \A i \in 1..Len(voiceTrace) :
        voiceTrace[i].e = "wait" =>
            /\ i > 1
            /\ voiceTrace[i - 1].e = "request"
            /\ voiceTrace[i].ms = 2000 * RequestsBefore(voiceTrace, i)

\* C8: the wait after the k-th failed attempt is 2000 * k ms and every wait
\* is followed by another attempt, never by the final error.
C8_WaitsOnlyBetweenAttempts ==
    /\ LinearWaits
    /\ voicePc = "done" =>
          \A i \in 1..Len(voiceTrace) :
              voiceTrace[i].e = "wait" =>
                  i < Len(voiceTrace) /\ voiceTrace[i + 1].e = "request"

\* C8 (amended): the wait after the k-th failed attempt is 2000 * k ms for
\* k = 1, 2, 3; the waits after attempts 1 and 2 are followed by another
\* attempt, and the 6000 ms wait after the third failed attempt is followed
\* by the final error.
C8_WaitsAfterEveryFailure ==
    /\ LinearWaits
    /\ \A i \in 1..Len(voiceTrace) :
          voiceTrace[i].e = "wait" =>
              /\ RequestsBefore(voiceTrace, i) \in 1..3
              /\ RequestsBefore(voiceTrace, i) < 3 =>
                    /\ voicePc # "done" \/ i < Len(voiceTrace)
                    /\ i < Len(voiceTrace) => voiceTrace[i + 1].e = "request"
              /\ RequestsBefore(voiceTrace, i) = 3 =>
                    /\ i = Len(voiceTrace)
                    /\ voiceTrace[i].ms = 6000
                    /\ voicePc = "done" => voiceOutcome.raised
    /\ VoiceFailed =>
          /\ Len(voiceTrace) = 6
          /\ voiceTrace[6] = WaitEvent(6000)

\* Three failed attempts: waits of 2000, 4000 and 6000 ms, then the error.
C8_Witness ==
    /\ VoiceFailed
    /\ voiceTrace = <<RequestEvent, WaitEvent(2000), RequestEvent, WaitEvent(4000),
                      RequestEvent, WaitEvent(6000)>>

(***************************************************************************)
(* Properties of generateSalesScript.                                      *)
(***************************************************************************)
\* C11: exactly one request is made; a rejected request raises the generic
\* error whatever the underlying error, a response with empty or missing
\* text returns the failure placeholder without raising, and any other
\* response text is returned unchanged.
C11_SingleShotScript ==
    /\ scriptRequests <= 1
    /\ scriptPc = "done" =>
          /\ scriptRequests = 1
          /\ scriptResponse.status = "threw" =>
                scriptOutcome = Raised(<<"Failed to generate script.">>)
          /\ (scriptResponse.status = "ok"
                /\ (~scriptResponse.hasText \/ scriptResponse.text = <<>>)) =>
                scriptOutcome = Returned(<<"Failed to generate script.">>)
          /\ (scriptResponse.status = "ok" /\ scriptResponse.hasText
                /\ scriptResponse.text # <<>>) =>
                scriptOutcome = Returned(scriptResponse.text)

\* A response without text was answered with the placeholder, not an error.
C11_Witness ==
    /\ scriptPc = "done"
    /\ scriptRequests = 1
    /\ scriptResponse = TextlessResponse
    /\ scriptOutcome = Returned(ScriptFailure)

(***************************************************************************)
(* Frame sampling of generateVisualPlan.                                   *)
(***************************************************************************)
\* The stride the sampling is specified with: the least s with 5 * s >= n.
CeilFifth(n) == CHOOSE s \in 0..n : 5 * s >= n /\ \A r \in 0..n : 5 * r >= n => s <= r

\* 0, step, 2 * step, ... below n, in increasing order.
RECURSIVE StrideIndices(_, _, _)
StrideIndices(from, step, n) ==
    IF from >= n THEN <<>> ELSE <<from>> \o StrideIndices(from + step, step, n)

\* The frame indices whose image parts were sent, in request order.
SentIndices ==
    [j \in 1..((Len(planParts) - 1) \div 2) |-> planParts[2 * j - 1].data[2]]

\* C12: once the request is sent, a non-empty frame sequence of length n
\* contributes exactly the frames at 0, step, 2*step, ... below n with
\* step = ceil(n/5), in order, each followed by the label of its own
\* timestamp, at most 5 of them (0, 5, 10, 15, 20 for n = 23); an empty or
\* absent frame sequence contributes no frame part.
C12_FrameSampling ==
    planPc \in {"request", "done"} =>
        LET n == Len(planFrames.frames)
            parts == planParts
        IN  /\ Len(parts) >= 1
            /\ parts[Len(parts)] = PromptPart
            /\ (~planFrames.present \/ n = 0) => Len(parts) = 1
            /\ (planFrames.present /\ n > 0) =>
                  LET idx == StrideIndices(0, CeilFifth(n), n)
                  IN  /\ Len(idx) <= 5
                      /\ Len(parts) = 2 * Len(idx) + 1
                      /\ SentIndices = idx
                      /\ \A j \in 1..Len(idx) :
                            LET frame == planFrames.frames[idx[j] + 1]
                            IN  /\ parts[2 * j - 1].kind = "inlineData"
                                /\ parts[2 * j - 1].data = frame.base64
                                /\ parts[2 * j].kind = "text"
                                /\ parts[2 * j].text =
                                      <<"[Timestamp: ", ToString(frame.timestamp), "s]">>
            /\ (planFrames.present /\ n = 23) => SentIndices = <<0, 5, 10, 15, 20>>

\* 23 frames were supplied and five of them were sent with the prompt.
C12_Witness ==
    /\ planPc = "request"
    /\ planFrames.present
    /\ Len(planFrames.frames) = 23
    /\ Len(planParts) = 11
    /\ planParts[9].data = <<"jpeg", 20>>
    /\ planParts[10].text = <<"[Timestamp: ", "40", "s]">>

(***************************************************************************)
(* Arguments handed to the image providers by generateAsset.               *)
(***************************************************************************)
FluxCalled == CountEvents(assetTrace, "flux") >= 1
GeminiCalled == CountEvents(assetTrace, "gemini") >= 1

\* C13: for every platform the dimensions requested from the primary
\* provider and the aspect ratio requested from the fallback provider have
\* the same orientation: 768x1024 and "9:16" for TikTok and Instagram,
\* 1024x768 and "16:9" for YouTube and Generic; "1:1" is never requested.
C13_OrientationAgrees ==
    /\ FluxCalled =>
          /\ platform \in {TIKTOK, INSTAGRAM} =>
                fluxArgs.width = 768 /\ fluxArgs.height = 1024
          /\ platform \in {YOUTUBE, GENERIC} =>
                fluxArgs.width = 1024 /\ fluxArgs.height = 768
    /\ GeminiCalled =>
          /\ platform \in {TIKTOK, INSTAGRAM} => geminiArgs.aspectRatio = "9:16"
          /\ platform \in {YOUTUBE, GENERIC} => geminiArgs.aspectRatio = "16:9"
          /\ geminiArgs.aspectRatio # "1:1"
          /\ geminiArgs.aspectRatio = "9:16" <=> fluxArgs.width < fluxArgs.height
          /\ geminiArgs.aspectRatio = "16:9" <=> fluxArgs.width > fluxArgs.height

\* A Generic call fell back after asking the primary provider for 1024x768.
C13_Witness ==
    /\ platform = GENERIC
    /\ FluxCalled
    /\ GeminiCalled
    /\ fluxArgs.width = 1024
    /\ fluxArgs.height = 768
    /\ geminiArgs.aspectRatio = "16:9"

\* The prompt of an item: its imagePrompt when present and non-empty,
\* otherwise its description.
PromptOfItem ==
    IF planItem.imagePrompt.has /\ planItem.imagePrompt.v # ""
    THEN planItem.imagePrompt.v
    ELSE planItem.description

\* C20: for an IMAGE item the prompt handed to the primary provider, the
\* prompt handed to the fallback provider and the prompt recorded in the
\* returned image asset are all the item's imagePrompt when it is present
\* and non-empty, otherwise the item's description; the asset's description
\* is the item's description.
C20_PromptSelection ==
    planItem.type = "IMAGE" =>
        /\ FluxCalled => fluxArgs.prompt = PromptOfItem
        /\ GeminiCalled =>
              /\ geminiArgs.prompt = PromptOfItem
              /\ geminiArgs.prompt = fluxArgs.prompt
        /\ (assetPc = "done" /\ assetOutcome.value # NullAsset) =>
              /\ assetOutcome.value.type = "image"
              /\ assetOutcome.value.prompt = PromptOfItem
              /\ assetOutcome.value.description = planItem.description

\* An item with an image prompt was drawn by the fallback provider.
C20_Witness ==
    /\ assetPc = "done"
    /\ planItem.type = "IMAGE"
    /\ planItem.imagePrompt = Some("p1")
    /\ GeminiCalled
    /\ geminiArgs.prompt = "p1"
    /\ assetOutcome.value # NullAsset
    /\ assetOutcome.value.prompt = "p1"
    /\ assetOutcome.value.description = "Intro"

(***************************************************************************)
(* Properties of cleanJson.                                                *)
(***************************************************************************)
\* The comma at i is followed, after optional whitespace, by "]" or "}".
IsTrailingComma(s, i) ==
    /\ s[i] = ","
    /\ \E j \in (i + 1)..Len(s) :
          /\ s[j] \in {"]", "}"}
          /\ \A k \in (i + 1)..(j - 1) : s[k] \in Whitespace

\* s without its trailing commas.
WithoutTrailingCommas(s) ==
    LET kept == {i \in 1..Len(s) : ~IsTrailingComma(s, i)}
    IN  [j \in 1..Cardinality(kept) |->
            s[CHOOSE i \in kept : Cardinality({k \in kept : k <= i}) = j]]

\* C14: for a well-formed array inside code fences with any prose around
\* it, prose with square brackets included, cleanJson returns exactly the
\* array without its trailing commas; the empty input gives "[]"; the fenced
\* one-object answer with trailing commas gives a text that parses to an
\* array of one element.
C14_CleanJsonExtractsArray ==
    cleanPc = "done" =>
        /\ cleanInput.kind = "wrapped" =>
              cleanOutput = WithoutTrailingCommas(cleanInput.array)
        /\ cleanInput.kind = "empty" => cleanOutput = <<"[", "]">>
        /\ cleanInput.kind = "example" =>
              LET parsed == JsonParse(cleanOutput)
              IN  /\ parsed.ok
                  /\ parsed.val.k = "arr"
                  /\ Len(parsed.val.items) = 1

(***************************************************************************)
(* Properties of cleanScriptForTTS, on the text generateVoiceover cleans.  *)
(***************************************************************************)
\* s has an opening lexeme with a closing lexeme somewhere after it.
HasSpan(s, open, close) ==
    \E i \in 1..Len(s) : \E j \in (i + 1)..Len(s) : s[i] = open /\ s[j] = close

\* C15: whatever the script, the cleaned text has no asterisk, no [...]
\* span, no (...) span, no two whitespace characters in a row and no
\* whitespace at either end; "Hello *there* [cue] (aside)  world" is cleaned
\* to "Hello there world".
C15_CleanScriptIsClean ==
    voicePc \notin {"idle", "start"} =>
        /\ \A i \in 1..Len(voiceClean) : voiceClean[i] # "*"
        /\ ~HasSpan(voiceClean, "[", "]")
        /\ ~HasSpan(voiceClean, "(", ")")
        /\ \A i \in 1..(Len(voiceClean) - 1) :
              ~(voiceClean[i] \in Whitespace /\ voiceClean[i + 1] \in Whitespace)
        /\ voiceClean # <<>> =>
              /\ voiceClean[1] \notin Whitespace
              /\ voiceClean[Len(voiceClean)] \notin Whitespace
        /\ voiceText = ExampleScript =>
              voiceClean = <<"Hello", " ", "there", " ", "world">>

(***************************************************************************)
(* Properties of extractTextFromZip.                                       *)
(***************************************************************************)
ZipReturned == zipPc = "done" /\ ~zipOutcome.raised

RECURSIVE TotalLength(_)
TotalLength(files) ==
    IF files = <<>> THEN 0 ELSE Head(files).content.length + TotalLength(Tail(files))

\* C16: the contents of the returned files add up to at most 500KB
\* (500 * 1024 characters), whatever the archive.
C16_TotalSizeBounded ==
    ZipReturned => TotalLength(zipOutcome.value) <= 500 * 1024

\* C17: the returned list has at most 50 files, each of them a non-directory
\* entry of the archive whose name ends, ignoring case, with an allow-listed
\* extension and whose content has no null character; and no file without
\* "readme" in its name (ignoring case) comes before one with it.
C17_FilesFilteredAndOrdered ==
    ZipReturned =>
        LET files == zipOutcome.value
        IN  /\ Len(files) <= 50
            /\ \A i \in 1..Len(files) :
                  /\ \E k \in 1..Len(zipEntries) :
                        /\ zipEntries[k].name = files[i].name
                        /\ zipEntries[k].content = files[i].content
                        /\ ~zipEntries[k].dir
                  /\ LowerName(files[i].name)[Len(files[i].name)] \in
                        {".txt", ".md", ".json", ".js", ".ts", ".tsx", ".jsx",
                         ".html", ".css", ".py", ".java", ".c", ".cpp", ".h"}
                  /\ ~files[i].content.hasNull
            /\ \A i \in 1..Len(files) : \A j \in (i + 1)..Len(files) :
                  ~("readme" \notin Range(LowerName(files[i].name))
                      /\ "readme" \in Range(LowerName(files[j].name)))

\* Of 52 readable text files, README files at the even places, 50 were
\* returned, README files first.
C17_Witness ==
    /\ ZipReturned
    /\ Len(zipEntries) = 52
    /\ ~HasReadme(zipEntries[1].name)
    /\ Len(zipOutcome.value) = 50
    /\ HasReadme(zipOutcome.value[1].name)
    /\ HasReadme(zipOutcome.value[26].name)
    /\ ~HasReadme(zipOutcome.value[27].name)

(***************************************************************************)
(* The successful attempt of generateVoiceover.                            *)
(***************************************************************************)
\* Some attempt has succeeded: an encoded audio was handed to the caller.
VoiceSucceeded == ~voiceOutcome.raised /\ voiceOutcome.value # ""

\* C18: when attempt k (1 <= k <= 3) is the first to succeed, the call is
\* over: exactly k requests were made, the last event is the k-th request
\* (no request and no backoff follows it), each of the k - 1 failed attempts
\* was followed by its backoff, and the audio returned is the payload of
\* the k-th response.
C18_FirstSuccessEndsCall ==
    VoiceSucceeded =>
        LET k == CountEvents(voiceTrace, "request")
        IN  /\ voicePc = "done"
            /\ k \in 1..3
            /\ k = voiceAttempt + 1
            /\ voiceTrace[Len(voiceTrace)] = RequestEvent
            /\ CountEvents(voiceTrace, "wait") = k - 1
            /\ Len(voiceTrace) = 2 * k - 1
            /\ voiceOutcome.value = voicePayload
            /\ voicePayload \in AudioPayloads

\* The second attempt succeeded after the first response could not be
\* decoded: two requests, one backoff, the second payload returned.
C18_Witness ==
    /\ VoiceSucceeded
    /\ voicePc = "done"
    /\ CountEvents(voiceTrace, "request") = 2
    /\ CountEvents(voiceTrace, "wait") = 1
    /\ voiceFailure = "Decode error"
    /\ voiceOutcome = Returned("audio2")

(***************************************************************************)
(* Termination and request discipline of generateAsset.                    *)
(***************************************************************************)
\* At most 3 primary requests, at most 1 fallback request, none of the
\* primary ones after the fallback one, and at most one request awaited.
BoundedRequests ==
    /\ CountEvents(assetTrace, "flux") <= 3
    /\ CountEvents(assetTrace, "gemini") <= 1
    /\ CountEvents(assetTrace, "flux") + CountEvents(assetTrace, "gemini") <= 4
    /\ \A i \in 1..Len(assetTrace) : \A j \in (i + 1)..Len(assetTrace) :
          ~(assetTrace[i].e = "gemini" /\ assetTrace[j].e = "flux")
    /\ assetOutstanding \in {0, 1}
    /\ assetPc = "done" => assetOutstanding = 0

\* C19: when provider calls and backoff timers eventually complete, every
\* generateAsset call finishes, and all along it has issued at most 3
\* primary requests, then at most 1 fallback request, never a primary
\* request after the fallback one, and never awaits two requests at once.
C19_TerminatesWithBoundedRequests ==
    /\ <>(assetPc = "done")
    /\ [](planItem.type = "IMAGE" => BoundedRequests)

\* The longest call: three primary requests, then the fallback request.
C19_Witness ==
    /\ assetPc = "done"
    /\ planItem.type = "IMAGE"
    /\ CountEvents(assetTrace, "flux") = 3
    /\ CountEvents(assetTrace, "wait") = 2
    /\ CountEvents(assetTrace, "gemini") = 1
    /\ assetTrace[Len(assetTrace)].e = "gemini"
    /\ assetOutstanding = 0

====
